---- MODULE Spec2Model ----
(***************************************************************************)
(* Sea-level tile server (main.go): the threshold normalizer               *)
(* clampSeaLevel and the cache / in-flight coordination of                 *)
(* generateSeaLevelTile, one process per HTTP request goroutine.           *)
(***************************************************************************)
EXTENDS Integers, Sequences, FiniteSets, TLC

\* ------------------------------------------------------------------ bounds
\* Number of request goroutines (each serves one request).
NumProcs == 3
\* Width of the machine int the normalizer is modelled with (Go's int is 64
\* bits; the arithmetic is the same two's-complement wrap-around at any width
\* that contains the clamp range).
IntBits == 11

\* ------------------------------------------------------- program constants
\* Variant of the channel: unbuffered.
ChanCapZero == 1 - 1
\* make(chan []byte, 1)
ChanCap == 1
MinLevel == -1000
MaxLevel == 1000
Step == 10
Half == 5

Procs == 1..NumProcs

\* ----------------------------------------------------------- machine ints
MinInt == -(2^(IntBits - 1))
MaxInt == 2^(IntBits - 1) - 1
MachineInts == MinInt..MaxInt

\* Two's-complement wrap-around of a mathematical integer to the int type.
Wrap(v) == ((v - MinInt) % (2^IntBits)) + MinInt

\* Go's integer division truncates toward zero.
GoDiv(a, b) == IF a >= 0 THEN a \div b ELSE -((-a) \div b)

\* level = ((level + 5) / 10) * 10
RoundLevel(level) == Wrap(GoDiv(Wrap(level + Half), Step) * Step)

\* Variant of the clamp that lacks the upper branch.
ClampNoUpper(level) == IF level < MinLevel THEN MinLevel ELSE level

\* if level < -1000 {...} else if level > 1000 {...}
ClampRange(level) ==
    IF level < MinLevel THEN MinLevel
    ELSE IF level > MaxLevel THEN MaxLevel
    ELSE level

clampSeaLevel(level) == ClampRange(RoundLevel(level))

\* ------------------------------------------------------------ request data
\* Raw thresholds the modelled requests carry (path segment {level}).
RawLevels == {-14, 4, 15}
\* Tile coordinates (z, x, y) of the modelled requests.
Coords == {<<"3", "1", "2">>}
\* Decoded upstream rasters a fetch may return: one elevation per pixel.
Sources == {<<-12, 3>>}

\* Variant of the key that leaves the threshold out.
CacheKeyNoLevel(lvl, c) == <<0, c[1], c[2], c[3]>>

\* fmt.Sprintf("%d/%s/%s/%s", seaLevel, z, x, y)
CacheKey(lvl, c) == <<lvl, c[1], c[2], c[3]>>

\* nil byte slice / zero value received from a closed channel
Nil == <<>>
NoErr == "nil"
NoChan == 0

Blue == <<0, 50, 120, 255>>
Transparent == <<0, 0, 0, 0>>

\* ------------------------------------------------------------ render stage
\* const tileSize = 256
tileSize == 256
\* numWorkers := 8
numWorkers == 8
\* Rows per band of the modelled tile; the modelled tile is TileDim x TileDim
\* pixels, a multiple of numWorkers as 256 is.
BandRows == 1
TileDim == numWorkers * BandRows

\* rowsPerWorker := tileSize / numWorkers, for a tile of ts rows
RowsPerWorker(ts) == GoDiv(ts, numWorkers)
\* go func(startRow, endRow int) {...}(worker*rowsPerWorker, (worker+1)*rowsPerWorker)
\* Variant of the band start: every worker starts at row 0.
StartRowZero(w, ts) == 0
\* Variant of the band end that stops one row short.
EndRowShort(w, ts) == (w + 1) * RowsPerWorker(ts) - 1
StartRow(w, ts) == w * RowsPerWorker(ts)
EndRow(w, ts) == (w + 1) * RowsPerWorker(ts)

WorkerIds == 0..(numWorkers - 1)

\* image.NewRGBA(image.Rect(0, 0, tileSize, tileSize)): Stride and len(Pix)
Stride == 4 * TileDim
PixLen == 4 * TileDim * TileDim
Offsets == 0..(PixLen - 1)
Pixels == 0..(TileDim * TileDim - 1)

\* Thresholds the modelled render calls receive (already normalized).
RenderLevels == {-10, 10}

\* Elevation of pixel i in the ramp part of the raster: every value of
\* -16..15 occurs, so each threshold of RenderLevels is met exactly, from
\* below and from above.
RampElevation(i) == ((i * 5) % 32) - 16

\* rgbaImg.Pix at offset o, the decoded raster of the modelled render calls.
\* The first 32 pixels encode RampElevation in the red and green bytes and
\* alternate blue between 0 and 255; the others cycle through the colours
\* (128,0,0) (0,128,0) (255,255,255) (0,0,0). Alpha is 255 throughout.
SrcPix(o) ==
    LET i == o \div 4
        c == o % 4
        e == RampElevation(i)
        corner == <<<<128, 0, 0>>, <<0, 128, 0>>, <<255, 255, 255>>,
                    <<0, 0, 0>>>>[(i % 4) + 1]
    IN  IF c = 3 THEN 255
        ELSE IF i < 32
             THEN IF c = 0 THEN (IF e >= 0 THEN 128 ELSE 127)
                  ELSE IF c = 1 THEN (IF e >= 0 THEN e ELSE 256 + e)
                  ELSE (i % 2) * 255
             ELSE corner[c + 1]

\* elevation := int(rVal)*256 + int(gVal) + int(bVal)/256 - 32768
Elevation(rVal, gVal, bVal) == rVal * 256 + gVal + GoDiv(bVal, 256) - 32768

\* Variant of the comparison that also submerges the threshold itself.
SubmergedInclusive(elevation, lvl) == elevation <= lvl

\* if elevation < seaLevel
Submerged(elevation, lvl) == elevation < lvl

\* The inner loop over x of one row y, from column x on; pix is
\* outputImg.Pix.
RECURSIVE RowLoop(_, _, _, _)
RowLoop(pix, lvl, y, x) ==
    IF ~(x < TileDim) THEN pix
    ELSE LET srcOffset == y * Stride + x * 4
             dstOffset == y * Stride + x * 4
         IN  IF ~(srcOffset + 2 < PixLen) THEN RowLoop(pix, lvl, y, x + 1)
             ELSE LET elevation == Elevation(SrcPix(srcOffset),
                                             SrcPix(srcOffset + 1),
                                             SrcPix(srcOffset + 2))
                      pixelColor == IF Submerged(elevation, lvl)
                                    THEN <<0, 50, 120, 255>>
                                    ELSE <<0, 0, 0, 0>>
                  IN  IF ~(dstOffset + 3 < PixLen)
                      THEN RowLoop(pix, lvl, y, x + 1)
                      ELSE RowLoop([pix EXCEPT
                                      ![dstOffset] = pixelColor[1],
                                      ![dstOffset + 1] = pixelColor[2],
                                      ![dstOffset + 2] = pixelColor[3],
                                      ![dstOffset + 3] = pixelColor[4]],
                                   lvl, y, x + 1)

\* Which worker stored to which pixel, for the same inner loop: a pixel is
\* stored to when both offset guards pass.
RECURSIVE MarkLoop(_, _, _, _)
MarkLoop(wr, w, y, x) ==
    IF ~(x < TileDim) THEN wr
    ELSE IF (y * Stride + x * 4 + 2 < PixLen) /\ (y * Stride + x * 4 + 3 < PixLen)
         THEN MarkLoop([wr EXCEPT ![y * TileDim + x] = Append(@, w)], w, y, x + 1)
         ELSE MarkLoop(wr, w, y, x + 1)

RECURSIVE MarkRows(_, _, _, _)
MarkRows(wr, w, y, endRow) ==
    IF ~(y < endRow /\ y < TileDim) THEN wr
    ELSE MarkRows(MarkLoop(wr, w, y, 0), w, y + 1, endRow)

\* for y := startRow; y < endRow && y < tileSize; y++ {...}, from row y on
RECURSIVE RowsFrom(_, _, _, _)
RowsFrom(pix, lvl, y, endRow) ==
    IF ~(y < endRow /\ y < TileDim) THEN pix
    ELSE RowsFrom(RowLoop(pix, lvl, y, 0), lvl, y + 1, endRow)

\* image.NewRGBA: all bytes zero.
FreshPix == [o \in Offsets |-> 0]

\* The pixel classification run by one worker over all rows, top to bottom.
SequentialRender(lvl) == RowsFrom(FreshPix, lvl, 0, TileDim)

\* The mask the render workers produce: blue where elevation < seaLevel.
RenderMask(src, lvl) ==
    [i \in DOMAIN src |-> IF Submerged(src[i], lvl) THEN Blue ELSE Transparent]

\* png.Encode of the mask: the bytes are determined by the mask.
EncodePNG(mask) == <<"png", mask>>

VARIABLES
    pc,        \* position of each request goroutine
    seaLevel,  \* the normalized threshold passed to generateSeaLevelTile
    coord,     \* z, x, y
    ch,        \* the channel the goroutine holds (owner: its own; waiter: found)
    img,       \* the owner's decoded elevation raster
    tileData,  \* the owner's encoded tile
    ret,       \* the call's return value (data, err)
    tiles,     \* cache.tiles
    inFlight,  \* cache.inFlight
    chans,     \* the channels made so far, by owner
    role,      \* how the call was served: "hit", "waiter", "owner"
    fetched,   \* whether the call executed the upstream request
    sawOwner,  \* whether an Owner for the same key was in progress during the call
    clampPc,   \* normalizer harness: "call" before the call, "ret" after
    clampIn,   \* normalizer harness: the input
    clampOut,  \* normalizer harness: the result
    rpc,       \* render stage: position of the pipeline goroutine
    worker,    \* render stage: the loop variable of the spawning loop
    wg,        \* render stage: the WaitGroup counter
    workers,   \* render stage: each band goroutine's status and startRow
    outputPix, \* render stage: outputImg.Pix
    renderLevel, \* render stage: seaLevel
    writer,    \* render stage: per output pixel, the workers that wrote it
    encoded    \* render stage: the bytes png.Encode produced

vars == <<pc, seaLevel, coord, ch, img, tileData, ret, tiles, inFlight,
          chans, role, fetched, sawOwner, clampPc, clampIn, clampOut,
          rpc, worker, wg, workers, outputPix, renderLevel, writer,
          encoded>>

clampVars == <<clampPc, clampIn, clampOut>>

renderVars == <<rpc, worker, wg, workers, outputPix, renderLevel,
                writer, encoded>>

procVars == <<pc, seaLevel, coord, ch, img, tileData, ret, tiles, inFlight,
              chans, role, fetched, sawOwner>>

key(p) == CacheKey(seaLevel[p], coord[p])

Active(p) == pc[p] \notin {"idle", "done"}

\* p has registered its handle and its deferred deregistration has not run.
Owning(p) == pc[p] \in {"fetch", "process", "insert", "send", "close", "dereg"}

InitProcs ==
    /\ pc = [p \in Procs |-> "idle"]
    /\ seaLevel = [p \in Procs |-> 0]
    /\ coord = [p \in Procs |-> <<"", "", "">>]
    /\ ch = [p \in Procs |-> NoChan]
    /\ img = [p \in Procs |-> Nil]
    /\ tileData = [p \in Procs |-> Nil]
    /\ ret = [p \in Procs |-> [data |-> Nil, err |-> NoErr]]
    /\ tiles = <<>>
    /\ inFlight = <<>>
    /\ chans = <<>>
    /\ role = [p \in Procs |-> "none"]
    /\ fetched = [p \in Procs |-> FALSE]
    /\ sawOwner = [p \in Procs |-> FALSE]

\* No render stage is in progress: outputImg is not allocated and no worker
\* exists.
RenderIdle ==
    /\ rpc = "idle"
    /\ worker = 0
    /\ wg = 0
    /\ workers = <<>>
    /\ outputPix = <<>>
    /\ writer = <<>>
    /\ renderLevel = 0
    /\ encoded = Nil

\* The render stage as generateSeaLevelTile reaches it: rgbaImg decoded,
\* outputImg freshly allocated, no worker started.
RenderStart(lvl) ==
    /\ rpc = "spawn"
    /\ worker = 0
    /\ wg = 0
    /\ workers = [w \in WorkerIds |-> [st |-> "new", y |-> 0]]
    /\ outputPix = FreshPix
    /\ writer = [i \in Pixels |-> <<>>]
    /\ renderLevel = lvl
    /\ encoded = Nil

Init ==
    /\ InitProcs
    /\ clampPc = "call"
    /\ clampIn = 0
    /\ clampOut = 0
    /\ RenderIdle

\* -------------------------------------------------------------- map helpers
MapPut(m, k, v) == [x \in (DOMAIN m) \cup {k} |-> IF x = k THEN v ELSE m[x]]
\* Variant of the delete that removes nothing.
MapDeleteNothing(m, k) == m

MapDelete(m, k) == [x \in (DOMAIN m) \ {k} |-> m[x]]

\* cached, exists := cache.tiles[cacheKey]
CacheExists(k) == k \in DOMAIN tiles

\* Variant of the insert that stores nothing.
CacheStoreNothing(k, data) == tiles

\* cache.tiles[cacheKey] = CachedTile{data: tileData, ...}; the timestamp is
\* never read and is left out.
CacheStore(k, data) == MapPut(tiles, k, [data |-> data])

\* Variant of the registry lookup that never finds a handle.
InFlightNever(k) == FALSE

\* ch, exists := cache.inFlight[cacheKey]
InFlightExists(k) == k \in DOMAIN inFlight

\* Variant of the close that leaves the channel open.
CloseChanNothing(c) == chans

\* close(ch)
CloseChan(c) == [chans EXCEPT ![c].closed = TRUE]

\* ------------------------------------------------------------------ actions
\* serveTile: parse, normalize, then generateSeaLevelTile up to the cache
\* lookup under cache.mu.RLock.
Enter(p, lvl, c) ==
    /\ pc[p] = "idle"
    /\ seaLevel' = [seaLevel EXCEPT ![p] = clampSeaLevel(lvl)]
    /\ coord' = [coord EXCEPT ![p] = c]
    /\ sawOwner' = [sawOwner EXCEPT ![p] =
                      \E q \in Procs : /\ Owning(q)
                                        /\ key(q) = CacheKey(clampSeaLevel(lvl), c)]

\* Cache hit: return cached.data, nil
CacheHit(p, lvl, c) ==
    /\ Enter(p, lvl, c)
    /\ CacheExists(CacheKey(clampSeaLevel(lvl), c))
    /\ ret' = [ret EXCEPT ![p] =
                 [data |-> tiles[CacheKey(clampSeaLevel(lvl), c)].data,
                  err |-> NoErr]]
    /\ role' = [role EXCEPT ![p] = "hit"]
    /\ pc' = [pc EXCEPT ![p] = "done"]
    /\ UNCHANGED <<ch, img, tileData, tiles, inFlight, chans, fetched,
                   clampVars, renderVars>>

\* Cache miss: fall through to the in-flight check
CacheMiss(p, lvl, c) ==
    /\ Enter(p, lvl, c)
    /\ ~CacheExists(CacheKey(clampSeaLevel(lvl), c))
    /\ pc' = [pc EXCEPT ![p] = "flight"]
    /\ UNCHANGED <<ch, img, tileData, ret, tiles, inFlight, chans, role,
                   fetched, clampVars, renderVars>>

\* Under flightMu: another request is in flight, wait for it
JoinInFlight(p) ==
    /\ pc[p] = "flight"
    /\ InFlightExists(key(p))
    /\ ch' = [ch EXCEPT ![p] = inFlight[key(p)]]
    /\ role' = [role EXCEPT ![p] = "waiter"]
    /\ pc' = [pc EXCEPT ![p] = "wait"]
    /\ UNCHANGED <<seaLevel, coord, img, tileData, ret, tiles, inFlight,
                   chans, fetched, sawOwner, clampVars, renderVars>>

\* Under flightMu: mark this request as in-flight
RegisterInFlight(p) ==
    /\ pc[p] = "flight"
    /\ ~InFlightExists(key(p))
    /\ chans' = MapPut(chans, p, [buf |-> <<>>, closed |-> FALSE])
    /\ inFlight' = MapPut(inFlight, key(p), p)
    /\ ch' = [ch EXCEPT ![p] = p]
    /\ role' = [role EXCEPT ![p] = "owner"]
    /\ pc' = [pc EXCEPT ![p] = "fetch"]
    /\ sawOwner' = [q \in Procs |->
                      IF q # p /\ Active(q) /\ key(q) = key(p)
                        THEN TRUE ELSE sawOwner[q]]
    /\ UNCHANGED <<seaLevel, coord, img, tileData, ret, tiles, fetched,
                   clampVars, renderVars>>

\* data := <-ch; return data, nil
WaitRecv(p) ==
    /\ pc[p] = "wait"
    /\ LET c == chans[ch[p]] IN
         /\ Len(c.buf) > 0 \/ c.closed
         /\ IF Len(c.buf) > 0
              THEN /\ ret' = [ret EXCEPT ![p] = [data |-> Head(c.buf), err |-> NoErr]]
                   /\ chans' = [chans EXCEPT ![ch[p]].buf = Tail(c.buf)]
              ELSE /\ ret' = [ret EXCEPT ![p] = [data |-> Nil, err |-> NoErr]]
                   /\ UNCHANGED chans
    /\ pc' = [pc EXCEPT ![p] = "done"]
    /\ UNCHANGED <<seaLevel, coord, ch, img, tileData, tiles, inFlight,
                   role, fetched, sawOwner, clampVars, renderVars>>

\* The failure kinds of the fetch stage: "request" is http.NewRequest failing
\* (nothing is sent upstream); "fetch" is client.Do failing, a status other
\* than 200 or png.Decode failing (the request was sent). Each of them does
\* close(ch) and returns nil with the error.
FetchErrors == {"request", "fetch"}

\* A failure path: close(ch); return nil, err
Fail(p, e) ==
    /\ chans' = CloseChan(ch[p])
    /\ ret' = [ret EXCEPT ![p] = [data |-> Nil, err |-> e]]
    /\ pc' = [pc EXCEPT ![p] = "dereg"]

\* http.NewRequest, client.Do, the status check or png.Decode fails
FetchFail(p, e) ==
    /\ pc[p] = "fetch"
    /\ Fail(p, e)
    /\ fetched' = [fetched EXCEPT ![p] = (e # "request")]
    /\ UNCHANGED <<seaLevel, coord, ch, img, tileData, tiles, inFlight,
                   role, sawOwner, clampVars, renderVars>>

\* The upstream tile is fetched and decoded
FetchOK(p, src) ==
    /\ pc[p] = "fetch"
    /\ fetched' = [fetched EXCEPT ![p] = TRUE]
    /\ img' = [img EXCEPT ![p] = src]
    /\ pc' = [pc EXCEPT ![p] = "process"]
    /\ UNCHANGED <<seaLevel, coord, ch, tileData, ret, tiles, inFlight,
                   chans, role, sawOwner, clampVars, renderVars>>

\* Render, then png.Encode fails
EncodeFail(p) ==
    /\ pc[p] = "process"
    /\ Fail(p, "encode")
    /\ UNCHANGED <<seaLevel, coord, ch, img, tileData, tiles, inFlight,
                   role, fetched, sawOwner, clampVars, renderVars>>

\* Render, then png.Encode succeeds: tileData := buf.Bytes()
EncodeOK(p) ==
    /\ pc[p] = "process"
    /\ tileData' = [tileData EXCEPT ![p] =
                      EncodePNG(RenderMask(img[p], seaLevel[p]))]
    /\ pc' = [pc EXCEPT ![p] = "insert"]
    /\ UNCHANGED <<seaLevel, coord, ch, img, ret, tiles, inFlight,
                   chans, role, fetched, sawOwner, clampVars, renderVars>>

\* Under cache.mu.Lock: cache the result
CacheInsert(p) ==
    /\ pc[p] = "insert"
    /\ tiles' = CacheStore(key(p), tileData[p])
    /\ pc' = [pc EXCEPT ![p] = "send"]
    /\ UNCHANGED <<seaLevel, coord, ch, img, tileData, ret, inFlight,
                   chans, role, fetched, sawOwner, clampVars, renderVars>>

\* ch <- tileData (blocks while the buffer is full)
Send(p) ==
    /\ pc[p] = "send"
    /\ Len(chans[ch[p]].buf) < ChanCap
    /\ chans' = [chans EXCEPT ![ch[p]].buf = Append(@, tileData[p])]
    /\ pc' = [pc EXCEPT ![p] = "close"]
    /\ UNCHANGED <<seaLevel, coord, ch, img, tileData, ret, tiles,
                   inFlight, role, fetched, sawOwner,
                   clampVars, renderVars>>

\* close(ch); return tileData, nil
Close(p) ==
    /\ pc[p] = "close"
    /\ chans' = CloseChan(ch[p])
    /\ ret' = [ret EXCEPT ![p] = [data |-> tileData[p], err |-> NoErr]]
    /\ pc' = [pc EXCEPT ![p] = "dereg"]
    /\ UNCHANGED <<seaLevel, coord, ch, img, tileData, tiles, inFlight,
                   role, fetched, sawOwner, clampVars, renderVars>>

\* The deferred function: delete(cache.inFlight, cacheKey) under flightMu
Deregister(p) ==
    /\ pc[p] = "dereg"
    /\ inFlight' = MapDelete(inFlight, key(p))
    /\ pc' = [pc EXCEPT ![p] = "done"]
    /\ UNCHANGED <<seaLevel, coord, ch, img, tileData, ret, tiles,
                   chans, role, fetched, sawOwner, clampVars, renderVars>>

Next ==
    \/ \E p \in Procs, lvl \in RawLevels, c \in Coords : CacheHit(p, lvl, c)
    \/ \E p \in Procs, lvl \in RawLevels, c \in Coords : CacheMiss(p, lvl, c)
    \/ \E p \in Procs : JoinInFlight(p)
    \/ \E p \in Procs : RegisterInFlight(p)
    \/ \E p \in Procs : WaitRecv(p)
    \/ \E p \in Procs, e \in FetchErrors : FetchFail(p, e)
    \/ \E p \in Procs, src \in Sources : FetchOK(p, src)
    \/ \E p \in Procs : EncodeFail(p)
    \/ \E p \in Procs : EncodeOK(p)
    \/ \E p \in Procs : CacheInsert(p)
    \/ \E p \in Procs : Send(p)
    \/ \E p \in Procs : Close(p)
    \/ \E p \in Procs : Deregister(p)

Spec == Init /\ [][Next]_vars

\* ------------------------------------------------------ normalizer harness
\* One call of clampSeaLevel on an arbitrary machine int.
InitClamp ==
    /\ InitProcs
    /\ clampPc = "call"
    /\ clampIn \in MachineInts
    /\ clampOut = 0
    /\ RenderIdle

CallClamp ==
    /\ clampPc = "call"
    /\ clampOut' = clampSeaLevel(clampIn)
    /\ clampPc' = "ret"
    /\ UNCHANGED <<clampIn, procVars, renderVars>>

NextClamp == CallClamp

SpecClamp == InitClamp /\ [][NextClamp]_vars

\* ------------------------------------------------------ render stage actions
InitRender ==
    /\ InitProcs
    /\ clampPc = "call"
    /\ clampIn = 0
    /\ clampOut = 0
    /\ \E lvl \in RenderLevels : RenderStart(lvl)

\* One iteration of for worker := 0; worker < numWorkers; worker++:
\* wg.Add(1) and the go statement with its evaluated arguments.
Spawn ==
    /\ rpc = "spawn"
    /\ worker < numWorkers
    /\ wg' = wg + 1
    /\ workers' = [workers EXCEPT ![worker] =
                     [st |-> "run", y |-> StartRow(worker, TileDim)]]
    /\ worker' = worker + 1
    /\ UNCHANGED <<rpc, outputPix, renderLevel, writer, encoded,
                   procVars, clampVars>>

\* The row loop of one worker over its band.
RenderBand(w) ==
    /\ workers[w].st = "run"
    /\ outputPix' = RowsFrom(outputPix, renderLevel, workers[w].y,
                             EndRow(w, TileDim))
    /\ writer' = MarkRows(writer, w, workers[w].y, EndRow(w, TileDim))
    /\ workers' = [workers EXCEPT ![w].st = "exit"]
    /\ UNCHANGED <<rpc, worker, wg, renderLevel, encoded, procVars,
                   clampVars>>

\* The goroutine returns; the deferred wg.Done() runs.
WorkerDone(w) ==
    /\ workers[w].st = "exit"
    /\ workers' = [workers EXCEPT ![w].st = "done"]
    /\ wg' = wg - 1
    /\ UNCHANGED <<rpc, worker, outputPix, renderLevel, writer,
                   encoded, procVars, clampVars>>

\* Variant of the barrier that does not wait.
WaitNoBarrier == TRUE

\* wg.Wait() returns when the counter is zero.
WaitReturns == wg = 0

\* The spawning loop has ended and wg.Wait() returns.
Wait ==
    /\ rpc = "spawn"
    /\ ~(worker < numWorkers)
    /\ WaitReturns
    /\ rpc' = "encode"
    /\ UNCHANGED <<worker, wg, workers, outputPix, renderLevel,
                   writer, encoded, procVars, clampVars>>

\* png.Encode(&buf, outputImg)
Encode ==
    /\ rpc = "encode"
    /\ encoded' = EncodePNG(outputPix)
    /\ rpc' = "done"
    /\ UNCHANGED <<worker, wg, workers, outputPix, renderLevel,
                   writer, procVars, clampVars>>

NextRender ==
    \/ Spawn
    \/ \E w \in WorkerIds : RenderBand(w)
    \/ \E w \in WorkerIds : WorkerDone(w)
    \/ Wait
    \/ Encode

SpecRender == InitRender /\ [][NextRender]_vars

\* ================================================================== claims
\* The owner of the handle a waiter joined (a channel is named by the
\* goroutine that made it).
OwnerOf(w) == ch[w]

\* The pipeline stages of an Owner: fetch, decode, render, encode, insert.
InPipeline(p) == pc[p] \in {"fetch", "process", "insert"}

\* No call but p and q was ever made for p's key.
OnlyCalls(p, q) ==
    \A r \in Procs \ {p, q} : pc[r] = "idle" \/ key(r) # key(p)

\* C1: among calls for the same uncached key that overlap in time exactly one
\* becomes Owner and performs the upstream fetch: a call during which another
\* Owner of its key was in progress never becomes Owner itself and never
\* fetches; it hits the cache or joins as Waiter.
C1_OneOwnerOneFetch ==
    \A q \in Procs :
        sawOwner[q] =>
            /\ role[q] \in {"none", "hit", "waiter"}
            /\ ~fetched[q]

\* C2: when an Owner's pipeline succeeds with bytes B, every Waiter that
\* joined that Owner's handle returns exactly B with no error.
C2_WaitersGetBytes ==
    \A w \in Procs :
        (/\ role[w] = "waiter"
         /\ pc[w] = "done"
         /\ tileData[OwnerOf(w)] # Nil)
        => ret[w] = [data |-> tileData[OwnerOf(w)], err |-> NoErr]

\* C3: when an Owner's pipeline fails, every Waiter attached to that Owner's
\* handle returns a non-nil error.
C3_WaitersGetError ==
    \A w \in Procs :
        (/\ role[w] = "waiter"
         /\ pc[w] = "done"
         /\ pc[OwnerOf(w)] \in {"dereg", "done"}
         /\ ret[OwnerOf(w)].err # NoErr)
        => ret[w].err # NoErr

\* C4: for every cache key at most one caller is between registering its
\* handle and finishing its pipeline; two pipelines for the same key never
\* run at the same time.
C4_OnePipelinePerKey ==
    \A p, q \in Procs :
        (p # q /\ InPipeline(p) /\ InPipeline(q)) => key(p) # key(q)

\* C4 witness: a pipeline is running for a key while a second caller for the
\* same key has missed the cache and joined it.
C4_Witness ==
    \E p, q \in Procs :
        /\ p # q
        /\ InPipeline(p)
        /\ pc[q] = "wait"
        /\ key(q) = key(p)

\* C5: the Tile Cache is write-once per key: once cache.tiles[key] has been
\* populated no step writes it again and its bytes never change.
C5_WriteOnce ==
    [][/\ \A k \in DOMAIN tiles : k \in DOMAIN tiles' /\ tiles'[k] = tiles[k]
       /\ \A p \in Procs :
            (pc[p] = "insert" /\ pc'[p] # "insert") => ~CacheExists(key(p))
      ]_vars

\* C6: two sequential calls for the same key, the first returned successfully
\* before the second starts and no other call for the key: the second call
\* is served from the cache with the first call's bytes, and the first call's
\* fetch is the only one.
C6_SequentialIdempotent ==
    [][\A p, q \in Procs :
         (/\ p # q
          /\ pc[p] = "done"
          /\ ret[p].err = NoErr
          /\ pc[q] = "idle"
          /\ pc'[q] # "idle"
          /\ CacheKey(seaLevel'[q], coord'[q]) = key(p)
          /\ OnlyCalls(p, q))
         => /\ pc'[q] = "done"
            /\ ret'[q] = ret[p]
            /\ ret[p].data # Nil
            /\ fetched[p]
            /\ ~fetched'[q]
      ]_vars

\* C6 witness: the second of two sequential calls for a key has returned the
\* first call's bytes from the cache; no Owner was in progress during it.
C6_Witness ==
    \E p, q \in Procs :
        /\ p # q
        /\ pc[p] = "done" /\ role[p] = "owner" /\ ret[p].err = NoErr
        /\ pc[q] = "done" /\ role[q] = "hit" /\ ~sawOwner[q]
        /\ key(q) = key(p)
        /\ ret[q] = ret[p]
        /\ OnlyCalls(p, q)

\* C7: a failed pipeline leaves no trace: no failure path inserts into
\* cache.tiles, and when the failing Owner has returned the key is in neither
\* the cache nor the in-flight registry.
C7_FailureLeavesNoTrace ==
    [][\A p \in Procs :
         /\ (pc[p] \in {"fetch", "process"} /\ pc'[p] = "dereg")
              => tiles' = tiles
         /\ (pc[p] = "dereg" /\ pc'[p] = "done" /\ ret[p].err # NoErr)
              => /\ ~(key(p) \in DOMAIN tiles')
                 /\ ~(key(p) \in DOMAIN inFlight')
      ]_vars

\* C8: for every machine int n, clampSeaLevel(n) is a multiple of 10 in
\* [-1000, 1000]; clampSeaLevel(4) = 0, clampSeaLevel(5) = 10,
\* clampSeaLevel(-1005) = -1000 and clampSeaLevel(1004) = 1000.
C8_MultipleOfTenInRange ==
    clampPc = "ret" =>
        /\ clampOut % Step = 0
        /\ MinLevel <= clampOut /\ clampOut <= MaxLevel
        /\ (clampIn = 4 => clampOut = 0)
        /\ (clampIn = 5 => clampOut = 10)
        /\ (clampIn = -1005 => clampOut = -1000)
        /\ (clampIn = 1004 => clampOut = 1000)

\* C8 witness: the normalizer has been applied to an input above the range
\* whose rounding stays above it.
C8_Witness == clampPc = "ret" /\ clampIn = 1005 /\ clampOut = MaxLevel

\* C9: for every n in [-1000, 1000], clampSeaLevel(n) is the nearest multiple
\* of 10, ties to the larger one: r - 5 <= n <= r + 4.
C9_NearestMultiple ==
    (clampPc = "ret" /\ MinLevel <= clampIn /\ clampIn <= MaxLevel) =>
        /\ clampOut - Half <= clampIn
        /\ clampIn <= clampOut + Half - 1

\* Two thresholds in the same bucket [10k-5, 10k+4], or both above 1000, or
\* both below -1000.
SameClass(n, m) ==
    \/ (n + Half) \div Step = (m + Half) \div Step
    \/ (n > MaxLevel /\ m > MaxLevel)
    \/ (n < MinLevel /\ m < MinLevel)

\* C10: two thresholds in the same 10 m bucket, or both above 1000, or both
\* below -1000, are normalized to the same value and give the same cache key
\* for the same (z, x, y).
C10_SameClassSameKey ==
    clampPc = "ret" =>
        \A m \in MachineInts :
            SameClass(clampIn, m) =>
                \A c \in Coords :
                    CacheKey(clampSeaLevel(m), c) = CacheKey(clampOut, c)

\* --------------------------------------- upstream content that may change
\* A second raster the upstream may serve for the same tile.
OtherSource == <<25, 3>>

\* The calls of Spec, with an upstream whose tile content is not fixed.
NextVarying ==
    \/ Next
    \/ \E p \in Procs : FetchOK(p, OtherSource)

SpecVarying == Init /\ [][NextVarying]_vars

\* The tiles a pipeline run for threshold lvl can produce.
TilesAt(lvl) == {EncodePNG(RenderMask(src, lvl)) : src \in Sources}

\* C12: requests with different normalized thresholds for the same (z, x, y)
\* share neither cache entry nor handle: every cache entry holds a tile
\* rendered at the threshold of its key, the bytes a call returns were
\* rendered at the call's own threshold, and the handle a Waiter holds
\* belongs to an Owner with the same threshold.
C12_ThresholdsNeverShare ==
    /\ \A k \in DOMAIN tiles : tiles[k].data \in TilesAt(k[1])
    /\ \A k \in DOMAIN inFlight : seaLevel[inFlight[k]] = k[1]
    /\ \A p \in Procs :
         /\ (pc[p] = "done" /\ ret[p].data # Nil) =>
              ret[p].data \in TilesAt(seaLevel[p])
         /\ role[p] = "waiter" =>
              /\ seaLevel[OwnerOf(p)] = seaLevel[p]
              /\ coord[OwnerOf(p)] = coord[p]

\* Two calls for the same coordinates and different thresholds have both
\* returned bytes, and the bytes differ.
C12_Witness ==
    \E p, q \in Procs :
        /\ pc[p] = "done" /\ pc[q] = "done"
        /\ coord[p] = coord[q]
        /\ seaLevel[p] # seaLevel[q]
        /\ ret[p].data # Nil /\ ret[q].data # Nil
        /\ ret[p].data # ret[q].data

\* C16: a caller joins a handle as Waiter only while the key is
\* owned-pending: at the step that attaches it, the handle's channel is not
\* closed and no result has been sent on it.
C16_NoJoinAfterResolution ==
    [][\A p \in Procs :
         (pc[p] = "flight" /\ pc'[p] = "wait") =>
           /\ ~chans[ch'[p]].closed
           /\ pc[ch'[p]] \in {"fetch", "process", "insert", "send"}
      ]_vars

\* C17: the cache insert precedes delivery: at the step by which a Waiter or
\* the Owner comes to hold non-empty bytes B as its result, cache.tiles[key]
\* holds B.
C17_InsertPrecedesDelivery ==
    [][\A p \in Procs :
         (ret'[p] # ret[p] /\ ret'[p].data # Nil) =>
           /\ CacheKey(seaLevel'[p], coord'[p]) \in DOMAIN tiles'
           /\ tiles'[CacheKey(seaLevel'[p], coord'[p])].data = ret'[p].data
      ]_vars

\* C18: the Owner resolves its channel exactly once: up to and including the
\* send the channel is open and nothing has been sent on it, so the send
\* finds the buffer slot free and does not block, with or without a Waiter;
\* the one close acts on an open channel; after it the channel stays closed
\* and the Owner touches it no more.
C18_ResolvedExactlyOnce ==
    \A p \in Procs :
        /\ pc[p] \in {"fetch", "process", "insert", "send"} =>
             /\ ~chans[p].closed
             /\ chans[p].buf = <<>>
             /\ Len(chans[p].buf) < ChanCap
        /\ pc[p] = "close" => ~chans[p].closed
        /\ (role[p] = "owner" /\ pc[p] \in {"dereg", "done"}) =>
             chans[p].closed
        /\ p \in DOMAIN chans => Len(chans[p].buf) <= 1

\* An Owner has sent and closed with no Waiter attached: the value sits in
\* the buffer.
C18_Witness ==
    \E p \in Procs :
        /\ role[p] = "owner"
        /\ pc[p] = "done"
        /\ chans[p].closed
        /\ chans[p].buf = <<tileData[p]>>
        /\ \A q \in Procs : role[q] # "waiter"

\* C19: clampSeaLevel returns every multiple of 10 in [-1000, 1000]
\* unchanged, and applying it to its own result changes nothing.
C19_IdempotentFixesCanonical ==
    clampPc = "ret" =>
        /\ (clampIn % Step = 0 /\ MinLevel <= clampIn /\ clampIn <= MaxLevel)
             => clampOut = clampIn
        /\ clampSeaLevel(clampOut) = clampOut

\* The callers that have registered a handle for key k and not yet run their
\* deferred deregistration.
OwnersOf(k) == {p \in Procs : Owning(p) /\ key(p) = k}

\* C21: cache.inFlight[k] is present iff exactly one caller has registered
\* as Owner for k and not yet deregistered, and the entry is that Owner's
\* own channel; so the entry an Owner's deferred delete removes is its own,
\* and the registry is empty when no request is active.
C21_RegistryMatchesOwners ==
    /\ \A k \in DOMAIN inFlight :
         /\ OwnersOf(k) = {inFlight[k]}
         /\ ch[inFlight[k]] = inFlight[k]
         /\ inFlight[k] \in DOMAIN chans
    /\ \A p \in Procs :
         Owning(p) => /\ InFlightExists(key(p))
                      /\ inFlight[key(p)] = p
                      /\ OwnersOf(key(p)) = {p}
    /\ (\A p \in Procs : ~Active(p)) => inFlight = <<>>

\* An Owner has come and gone for a key and a later Owner holds the key's
\* entry, while the Owner of another key is about to run its deferred
\* delete.
C21_Witness ==
    \E p, q, r \in Procs :
        /\ role[p] = "owner" /\ pc[p] = "done"
        /\ Owning(q) /\ key(q) = key(p) /\ inFlight[key(q)] = q
        /\ pc[r] = "dereg" /\ key(r) # key(q) /\ inFlight[key(r)] = r

\* ------------------------------------------------------------ termination
\* The steps of call p after its cache lookup. The goroutine is scheduled
\* fairly, no critical section contains a blocking operation, and the
\* upstream fetch returns (FetchOK or FetchFail).
Proceed(p) ==
    \/ JoinInFlight(p)
    \/ RegisterInFlight(p)
    \/ WaitRecv(p)
    \/ \E e \in FetchErrors : FetchFail(p, e)
    \/ \E src \in Sources : FetchOK(p, src)
    \/ EncodeFail(p)
    \/ EncodeOK(p)
    \/ CacheInsert(p)
    \/ Send(p)
    \/ Close(p)
    \/ Deregister(p)

FairSpec == Init /\ [][Next]_vars /\ \A p \in Procs : WF_vars(Proceed(p))

\* C20: under fair scheduling, with every upstream fetch returning, every
\* call that has started returns: no Waiter waits forever on its channel,
\* whichever path its Owner takes, and no Owner is stuck.
C20_EveryCallReturns == \A p \in Procs : Active(p) ~> (pc[p] = "done")

\* All calls have returned; one was an Owner whose fetch failed and one a
\* Waiter on that Owner's handle.
C20_Witness ==
    /\ \A p \in Procs : pc[p] = "done"
    /\ \E p, q \in Procs :
         /\ role[p] = "owner" /\ ret[p].err # NoErr
         /\ role[q] = "waiter" /\ OwnerOf(q) = p

\* ------------------------------------------------------ render stage claims
\* The colour bytes of output pixel i.
OutColour(i) == <<outputPix[4 * i], outputPix[4 * i + 1], outputPix[4 * i + 2],
                  outputPix[4 * i + 3]>>

\* The render stage is past the barrier.
PastBarrier == rpc \in {"encode", "done"}

Band(w, ts) == {y \in StartRow(w, ts)..(EndRow(w, ts) - 1) : y < ts}

\* C14: the bands of the 8 workers are pairwise disjoint and cover exactly the
\* rows of the tile (for the 256-row tile and for the modelled one); no pixel
\* is ever written twice, every write is by the worker whose band holds the
\* row, and when the workers are through every pixel was written once.
C14_BandsPartitionRows ==
    /\ \A ts \in {tileSize, TileDim} :
         /\ \A v, w \in WorkerIds : v # w => Band(v, ts) \cap Band(w, ts) = {}
         /\ UNION {Band(w, ts) : w \in WorkerIds} = 0..(ts - 1)
    /\ \A i \in Pixels :
         /\ Len(writer[i]) <= 1
         /\ \A n \in 1..Len(writer[i]) :
              (i \div TileDim) \in Band(writer[i][n], TileDim)
    /\ PastBarrier => \A i \in Pixels : Len(writer[i]) = 1

\* All eight workers have written; first and last rows by workers 0 and 7.
C14_Witness ==
    /\ rpc = "done"
    /\ writer[0] = <<0>>
    /\ writer[TileDim * TileDim - 1] = <<numWorkers - 1>>
    /\ \A i \in Pixels : Len(writer[i]) = 1

\* C15: the encoder does not run while a worker still has pixels to write:
\* past the barrier every worker has returned and the counter is zero.
C15_EncodeAfterWorkers ==
    PastBarrier => /\ \A w \in WorkerIds : workers[w].st = "done"
                   /\ wg = 0
                   /\ worker = numWorkers

\* The barrier has held the pipeline goroutine back: all workers were
\* started, and the encoder is now about to run.
C15_Witness ==
    /\ rpc = "encode"
    /\ \A w \in WorkerIds : workers[w].st = "done"
    /\ encoded = Nil

====
